---------------------------- MODULE Spec2Model ----------------------------
(***************************************************************************)
(* Bootstrap and connectivity state machine of the two xxdk example        *)
(* programs held in src/restSingleUseServer/main.go:                       *)
(*   - the rest-like single-use server  (lines 15-166), variant "server"   *)
(*   - the direct-channel sender        (lines 186-350), variant "sender"  *)
(* One main goroutine walks the statements of main(); the network follower *)
(* delivers health events through the callback registered with             *)
(* AddHealthCallback; the runtime timer fires the wait's timeoutTimer.     *)
(* The disk (state directory, stored reception identity) survives a        *)
(* process run; everything else is rebuilt by Restart.                     *)
(***************************************************************************)
EXTENDS Integers, Sequences, FiniteSets, TLC

\* ------------------------------------------------------------------ bounds
\* Process runs in one behaviour.
MaxRuns == 2
\* Health events the follower reports in one run of Spec.
MaxEvents == 3
\* Health events the follower reports in one run of SpecLifetime.
MaxLifeEvents == 12

\* ------------------------------------------------------- program constants
\* connected := make(chan bool, 10)
ChanCap == 10

VARIABLES
    \* environment, fixed during a behaviour
    ndfFile,        \* local NDF cache at ndfPath: [exists, bytes]
    certPresent,    \* a certificate file exists at certificatePath
    remoteOk,       \* ndfURL serves a definition the certificate verifies
    \* disk, kept from one run to the next
    stateDir,       \* statePath: "absent", "partial" or "valid"
    stateWrites,    \* NewCmix calls that left something at statePath
    storedId,       \* identity stored under identityStorageKey (0: none)
    firstStored,    \* the first identity ever stored under the key (0: none)
    idCounter,      \* identities generated so far
    \* the process
    runs,           \* runs started so far
    variant,        \* which program this run executes
    pc,             \* statement the main goroutine is at
    fatal,          \* which jww.FATAL.Panicf ended the run ("none": alive)
    done,           \* calls this run has made
    foundState,     \* statePath existed when this run started
    ndfJSON,        \* the ndfJSON slice: [isNil, bytes]
    ndfErr,         \* ReadFile(ndfPath) returned an error
    newCmixArg,     \* string(ndfJSON) handed to NewCmix
    identity,       \* the identity local variable (0: unset)
    loginId,        \* identity handed to Login (0: none)
    followerRunning,\* StartNetworkFollower succeeded
    followerErr,    \* StartNetworkFollower returned an error
    subscribed,     \* the health callback is registered
    connected,      \* the connected channel's buffer
    notifier,       \* the follower's callback: [blocked, val]
    sent,           \* every value placed in the buffer, in order
    received,       \* every value the wait loop dequeued, in order
    backlog,        \* the buffer as the loop's first receive found it
    events,         \* health events reported this run
    trueBeforeFire, \* a true entered the buffer before the timer elapsed
    timer,          \* timeoutTimer: "unset", "armed" or "fired"
    timerArms,      \* times a timer was armed this run
    gate,           \* the wait: "none", "waiting", "connected", "timeout"
    sendAttempts    \* SendE2E calls this run

envVars  == <<ndfFile, certPresent, remoteOk>>
diskVars == <<stateDir, stateWrites, storedId, firstStored, idCounter>>
bootVars == <<foundState, ndfJSON, ndfErr, newCmixArg>>
idVars   == <<identity, loginId>>
chanVars == <<connected, notifier, sent, received, backlog, trueBeforeFire>>
netVars  == <<followerRunning, followerErr, subscribed, events>>
waitVars == <<timer, timerArms, gate>>
vars == <<envVars, diskVars, runs, variant, pc, fatal, done, bootVars, idVars,
          chanVars, netVars, waitVars, sendAttempts>>

\* ----------------------------------------------------------------- values
Variants == {"server", "sender"}
NoId == 0
NilBytes == [isNil |-> TRUE, bytes |-> <<>>]
Bytes(b) == [isNil |-> FALSE, bytes |-> b]
\* The bytes the remote URL serves, and the local caches tried.
RemoteNdf == <<7, 7>>
LocalNdf == <<1, 2>>
NdfFiles == { [exists |-> FALSE, bytes |-> <<>>],
              [exists |-> TRUE, bytes |-> <<>>],
              [exists |-> TRUE, bytes |-> LocalNdf] }
Idle == [blocked |-> FALSE, val |-> FALSE]

\* Proper prefixes of a byte sequence: what a read that fails midway holds.
ProperPrefixes(b) == { SubSeq(b, 1, n) : n \in 0..(Len(b) - 1) }

\* ioutil.ReadFile: (nil, err) when the file cannot be opened; the bytes
\* read so far, non-nil, with the error when a read fails; (bytes, nil)
\* otherwise.
ReadFile(f) ==
    IF ~f.exists
    THEN { [data |-> NilBytes, err |-> TRUE] }
    ELSE { [data |-> Bytes(f.bytes), err |-> FALSE],
           [data |-> NilBytes, err |-> TRUE] }
         \cup { [data |-> Bytes(p), err |-> TRUE] : p \in ProperPrefixes(f.bytes) }

\* os.Stat(statePath): nil when the path exists, fs.ErrNotExist when it
\* does not, or another error (permission) in either case.
StatResults(d) ==
    IF d = "absent" THEN {"ErrNotExist", "ErrPermission"}
    ELSE {"nil", "ErrPermission"}


\* ------------------------------------------------------------ initial state
RunStart ==
    /\ pc = "stat" /\ fatal = "none" /\ done = {}
    /\ foundState = FALSE /\ ndfJSON = NilBytes /\ ndfErr = FALSE
    /\ newCmixArg = [called |-> FALSE, bytes |-> <<>>]
    /\ identity = NoId /\ loginId = NoId
    /\ followerRunning = FALSE /\ followerErr = FALSE /\ subscribed = FALSE
    /\ connected = <<>> /\ notifier = Idle /\ sent = <<>> /\ received = <<>>
    /\ backlog = <<>>
    /\ events = 0 /\ trueBeforeFire = FALSE
    /\ timer = "unset" /\ timerArms = 0 /\ gate = "none"
    /\ sendAttempts = 0

Init ==
    /\ ndfFile \in NdfFiles
    /\ certPresent \in BOOLEAN
    /\ remoteOk \in BOOLEAN
    /\ stateDir = "absent" /\ stateWrites = 0
    /\ storedId = NoId /\ firstStored = NoId /\ idCounter = 0
    /\ runs = 1
    /\ variant \in Variants
    /\ RunStart

\* --------------------------------------------------------- main goroutine
\* The main goroutine moves from statement `from` to `to`, having made `call`.
Goto(from, to, call) ==
    /\ pc = from
    /\ pc' = to
    /\ done' = done \cup {call}
    /\ UNCHANGED fatal

\* jww.FATAL.Panicf in the statement `from`, after making `call`.
Panicf(from, call, cause) ==
    /\ pc = from
    /\ pc' = "dead"
    /\ fatal' = cause
    /\ done' = done \cup {call}

\* errors.Is(err, fs.ErrNotExist) on the result of os.Stat.
IsNotExistAnyErr(r) == r # "nil"
IsNotExist(r) == r = "ErrNotExist"

\* if _, err := os.Stat(statePath); errors.Is(err, fs.ErrNotExist) {
Stat ==
    /\ \E r \in StatResults(stateDir) :
          Goto("stat", IF IsNotExist(r) THEN "readNdf" ELSE "loadCmix", "stat")
    /\ foundState' = (stateDir # "absent")
    /\ UNCHANGED <<envVars, diskVars, runs, variant, ndfJSON, ndfErr,
                   newCmixArg, idVars, chanVars, netVars, waitVars, sendAttempts>>

\* if ndfJSON == nil {
NeedsRemoteAlways(j) == TRUE
NeedsRemote(j) == j.isNil

\* ndfJSON, err = ioutil.ReadFile(ndfPath); the error is only logged.
ReadNdf ==
    /\ \E r \in ReadFile(ndfFile) :
          /\ ndfJSON' = r.data
          /\ ndfErr' = r.err
          /\ Goto("readNdf",
                  IF NeedsRemote(r.data) THEN "readCert" ELSE "newCmix",
                  "readNdf")
    /\ UNCHANGED <<envVars, diskVars, runs, variant, foundState, newCmixArg,
                   idVars, chanVars, netVars, waitVars, sendAttempts>>

\* The statement after an error on the remote path (the certificate read,
\* the download): both are jww.FATAL.Panicf, which ends the process.
AfterRemoteErrorLogged(step) ==
    IF step = "readCert" THEN "download" ELSE "newCmix"
AfterRemoteError(step) == "dead"

\* An error in statement `from`, handled by going to `to` ("dead": Panicf).
Fail(from, to, call, cause) ==
    /\ pc = from
    /\ pc' = to
    /\ fatal' = IF to = "dead" THEN cause ELSE fatal
    /\ done' = done \cup {call}

\* cert, err := ioutil.ReadFile(certificatePath)
ReadCert ==
    /\ \/ certPresent /\ Goto("readCert", "download", "readCert")
       \/ Fail("readCert", AfterRemoteError("readCert"), "readCert",
               "certificate")
    /\ UNCHANGED <<envVars, diskVars, runs, variant, bootVars, idVars,
                   chanVars, netVars, waitVars, sendAttempts>>

\* ndfJSON, err = xxdk.DownloadAndVerifySignedNdfWithUrl(ndfURL, string(cert))
Download ==
    /\ \/ /\ remoteOk
          /\ Goto("download", "newCmix", "download")
          /\ ndfJSON' = Bytes(RemoteNdf)
       \/ /\ Fail("download", AfterRemoteError("download"), "download",
                  "download")
          /\ ndfJSON' = NilBytes
    /\ UNCHANGED <<envVars, diskVars, runs, variant, foundState, ndfErr,
                   newCmixArg, idVars, chanVars, netVars, waitVars, sendAttempts>>

\* err = xxdk.NewCmix(string(ndfJSON), statePath, []byte(statePass), "")
\* A failed call leaves statePath as it was or partly written.
NewCmix ==
    /\ newCmixArg' = [called |-> TRUE, bytes |-> ndfJSON.bytes]
    /\ \/ /\ Goto("newCmix", "loadCmix", "newCmix")
          /\ stateDir' = "valid"
          /\ stateWrites' = stateWrites + 1
          /\ storedId' = NoId
       \/ /\ Panicf("newCmix", "newCmix", "newCmix")
          /\ \/ UNCHANGED <<stateDir, stateWrites, storedId>>
             \/ /\ stateDir' = "partial"
                /\ stateWrites' = stateWrites + 1
                /\ storedId' = NoId
    /\ UNCHANGED <<envVars, firstStored, idCounter, runs, variant, foundState,
                   ndfJSON, ndfErr, idVars, chanVars, netVars, waitVars,
                   sendAttempts>>

\* baseClient, err := xxdk.LoadCmix(statePath, []byte(statePass), ...)
LoadCmix ==
    /\ \/ stateDir = "valid" /\ Goto("loadCmix", "loadIdentity", "loadCmix")
       \/ Panicf("loadCmix", "loadCmix", "loadCmix")
    /\ UNCHANGED <<envVars, diskVars, runs, variant, bootVars, idVars,
                   chanVars, netVars, waitVars, sendAttempts>>

\* identity, err := xxdk.LoadReceptionIdentity(identityStorageKey, baseClient)
\* Any error, not only a missing entry, takes the generate-and-store branch.
LoadIdentity ==
    /\ \/ /\ storedId # NoId
          /\ Goto("loadIdentity", "login", "loadIdentity")
          /\ identity' = storedId
       \/ /\ Goto("loadIdentity", "makeIdentity", "loadIdentity")
          /\ UNCHANGED identity
    /\ UNCHANGED <<envVars, diskVars, runs, variant, bootVars, loginId,
                   chanVars, netVars, waitVars, sendAttempts>>

\* identity, err = xxdk.MakeReceptionIdentity(baseClient)
MakeIdentity ==
    /\ \/ /\ Goto("makeIdentity", "storeIdentity", "makeIdentity")
          /\ identity' = idCounter + 1
          /\ idCounter' = idCounter + 1
       \/ /\ Panicf("makeIdentity", "makeIdentity", "makeIdentity")
          /\ UNCHANGED <<identity, idCounter>>
    /\ UNCHANGED <<envVars, stateDir, stateWrites, storedId, firstStored, runs,
                   variant, bootVars, loginId, chanVars, netVars, waitVars,
                   sendAttempts>>

\* The statement after a StoreReceptionIdentity error: jww.FATAL.Panicf.
AfterStoreErrorLogged == "login"
AfterStoreError == "dead"

\* err = xxdk.StoreReceptionIdentity(identityStorageKey, identity, baseClient)
StoreIdentity ==
    /\ \/ /\ Goto("storeIdentity", "login", "storeIdentity")
          /\ storedId' = identity
          /\ firstStored' = IF firstStored = NoId THEN identity ELSE firstStored
       \/ /\ Fail("storeIdentity", AfterStoreError, "storeIdentity",
                  "storeIdentity")
          /\ UNCHANGED <<storedId, firstStored>>
    /\ UNCHANGED <<envVars, stateDir, stateWrites, idCounter, runs, variant,
                   bootVars, idVars, chanVars, netVars, waitVars, sendAttempts>>

\* The statement after a successful Login: the server goes on to write its
\* contact file and build the request server, the sender starts the follower.
PcAfterLoginNoServer(v) == "startFollower"
PcAfterLogin(v) == IF v = "server" THEN "writeContact" ELSE "startFollower"

\* e2eClient, err := xxdk.Login(baseClient, ..., identity, params)
Login ==
    /\ \/ /\ Goto("login", PcAfterLogin(variant), "login")
          /\ loginId' = identity
       \/ /\ Panicf("login", "login", "login")
          /\ UNCHANGED loginId
    /\ UNCHANGED <<envVars, diskVars, runs, variant, bootVars, identity,
                   chanVars, netVars, waitVars, sendAttempts>>

\* writeContact(contactFilePath, identity.GetContact())
WriteContact ==
    /\ Goto("writeContact", "unmarshalKey", "writeContact")
    /\ UNCHANGED <<envVars, diskVars, runs, variant, bootVars, idVars,
                   chanVars, netVars, waitVars, sendAttempts>>

\* err = dhKeyPriv.UnmarshalJSON(receptionIdentity.DHKeyPrivate)
UnmarshalKey ==
    /\ \/ Goto("unmarshalKey", "newServer", "unmarshalKey")
       \/ Panicf("unmarshalKey", "unmarshalKey", "dhKey")
    /\ UNCHANGED <<envVars, diskVars, runs, variant, bootVars, idVars,
                   chanVars, netVars, waitVars, sendAttempts>>

\* single.NewServer(receptionIdentity.ID, dhPrivateKey, ...)
NewServer ==
    /\ Goto("newServer", "startFollower", "newServer")
    /\ UNCHANGED <<envVars, diskVars, runs, variant, bootVars, idVars,
                   chanVars, netVars, waitVars, sendAttempts>>


\* err = e2eClient.StartNetworkFollower(networkFollowerTimeout)
\* The server panics on an error (jww.FATAL.Panicf); the sender prints it
\* (fmt.Printf) and goes on.
StartFollower ==
    /\ \/ /\ Goto("startFollower", "addCallback", "startFollower")
          /\ followerRunning' = TRUE
          /\ UNCHANGED followerErr
       \/ /\ followerErr' = TRUE
          /\ UNCHANGED followerRunning
          /\ IF variant = "server"
             THEN Panicf("startFollower", "startFollower", "follower")
             ELSE Goto("startFollower", "addCallback", "startFollower")
    /\ UNCHANGED <<envVars, diskVars, runs, variant, bootVars, idVars,
                   chanVars, subscribed, events, waitVars, sendAttempts>>

\* connected := make(chan bool, 10); GetCmix().AddHealthCallback(func ...)
AddCallback ==
    /\ Goto("addCallback", "newTimer", "addCallback")
    /\ subscribed' = TRUE
    /\ UNCHANGED <<envVars, diskVars, runs, variant, bootVars, idVars,
                   chanVars, followerRunning, followerErr, events, waitVars,
                   sendAttempts>>

\* waitUntilConnected(connected): timeoutTimer := time.NewTimer(waitTimeout)
NewTimer ==
    /\ Goto("newTimer", "select", "waitUntilConnected")
    /\ timer' = "armed"
    /\ timerArms' = timerArms + 1
    /\ gate' = "waiting"
    /\ UNCHANGED <<envVars, diskVars, runs, variant, bootVars, idVars,
                   chanVars, netVars, sendAttempts>>

\* The timer has elapsed: its channel holds, or has delivered, the tick.
TimerElapsed == timer \in {"fired", "drained"}

\* The runtime sends on timeoutTimer.C once waitTimeout has elapsed.
TimerFire ==
    /\ pc # "dead"
    /\ timer = "armed"
    /\ timer' = "fired"
    /\ UNCHANGED <<envVars, diskVars, runs, variant, pc, fatal, done, bootVars,
                   idVars, chanVars, netVars, timerArms, gate, sendAttempts>>

\* The history h with v added, when the run's histories are kept.
Log(h, v, keep) == IF keep THEN Append(h, v) ELSE h

\* A value enters the channel's buffer.
Put(b, keep) ==
    /\ connected' = Append(connected, b)
    /\ sent' = Log(sent, b, keep)
    /\ trueBeforeFire' = (trueBeforeFire \/ (b /\ ~TimerElapsed))

Enqueue(b) == Put(b, TRUE)

\* func(isConnected bool) { connected <- isConnected }, run by the follower
\* on a health event; the send blocks while the buffer is full. An event
\* reported while no callback is registered reaches nobody.
Deliver(b, keep) ==
    IF ~subscribed
    THEN UNCHANGED chanVars
    ELSE IF Len(connected) < ChanCap
         THEN Put(b, keep) /\ UNCHANGED <<notifier, received, backlog>>
         ELSE /\ notifier' = [blocked |-> TRUE, val |-> b]
              /\ UNCHANGED <<connected, sent, received, backlog,
                             trueBeforeFire>>

Callback(b) == Deliver(b, TRUE)

\* The follower reports a health event and runs the callback.
Report(keep) ==
    /\ pc # "dead"
    /\ followerRunning
    /\ ~notifier.blocked
    /\ \E b \in BOOLEAN : Deliver(b, keep)
    /\ UNCHANGED <<envVars, diskVars, runs, variant, pc, fatal, done, bootVars,
                   idVars, followerRunning, followerErr, subscribed, waitVars,
                   sendAttempts>>

FollowerReports(limit) ==
    /\ events < limit
    /\ events' = events + 1
    /\ Report(TRUE)

HealthEvent == FollowerReports(MaxEvents)

\* <-connected on the buffered channel: the oldest value.
ChanRecvNewest(q) == [val |-> q[Len(q)], rest |-> SubSeq(q, 1, Len(q) - 1)]
ChanRecv(q) == [val |-> Head(q), rest |-> Tail(q)]

\* for !isConnected: the loop ends once the received value is true.
LoopEndsAnyValue(v) == TRUE
LoopNeverEnds(v) == FALSE
LoopEnds(v) == v

\* The statement after waitUntilConnected returns.
PcAfterGate(v) == IF v = "server" THEN "block" ELSE "readContact"

\* The timer after a pass of the loop: it is created once, before the
\* loop, and a receive does not touch it.
TimerAfterRecvReset(t) == "armed"
TimerAfterRecv(t) == t

\* case isConnected = <-connected: a receive also lets a blocked sender's
\* value into the buffer.
Receive(keep) ==
    /\ pc = "select"
    /\ connected # <<>>
    /\ LET r == ChanRecv(connected) IN
          /\ received' = Log(received, r.val, keep)
          /\ backlog' = IF keep /\ received = <<>> THEN connected ELSE backlog
          /\ IF notifier.blocked
             THEN /\ connected' = Append(r.rest, notifier.val)
                  /\ sent' = Log(sent, notifier.val, keep)
                  /\ trueBeforeFire' =
                        (trueBeforeFire \/ (notifier.val /\ ~TimerElapsed))
                  /\ notifier' = Idle
             ELSE /\ connected' = r.rest
                  /\ UNCHANGED <<sent, trueBeforeFire, notifier>>
          /\ IF LoopEnds(r.val)
             THEN /\ pc' = PcAfterGate(variant)
                  /\ gate' = "connected"
             ELSE UNCHANGED <<pc, gate>>
    /\ timer' = TimerAfterRecv(timer)
    /\ UNCHANGED <<envVars, diskVars, runs, variant, fatal, done, bootVars,
                   idVars, netVars, timerArms, sendAttempts>>

SelectRecv == Receive(TRUE)

\* The statement after the timeout case: jww.FATAL.Panicf ends the process.
AfterTimeoutGoesOn(v) == PcAfterGate(v)
AfterTimeout(v) == "dead"

\* case <-timeoutTimer.C: jww.FATAL.Panicf("Timeout on starting ...")
SelectTimeout ==
    /\ pc = "select"
    /\ timer = "fired"
    /\ timer' = "drained"
    /\ gate' = "timeout"
    /\ pc' = AfterTimeout(variant)
    /\ fatal' = IF AfterTimeout(variant) = "dead" THEN "timeout" ELSE fatal
    /\ UNCHANGED <<envVars, diskVars, runs, variant, done, bootVars, idVars,
                   chanVars, netVars, timerArms, sendAttempts>>

\* ------------------------------------------------- sender, after the gate
\* contactData, err := ioutil.ReadFile(serverContactPath)
ReadContact ==
    /\ \/ Goto("readContact", "unmarshalContact", "readContact")
       \/ Panicf("readContact", "readContact", "contactFile")
    /\ UNCHANGED <<envVars, diskVars, runs, variant, bootVars, idVars,
                   chanVars, netVars, waitVars, sendAttempts>>

\* recipientContact, err := contact.Unmarshal(contactData)
UnmarshalContact ==
    /\ \/ Goto("unmarshalContact", "connect", "unmarshalContact")
       \/ Panicf("unmarshalContact", "unmarshalContact", "contactData")
    /\ UNCHANGED <<envVars, diskVars, runs, variant, bootVars, idVars,
                   chanVars, netVars, waitVars, sendAttempts>>

\* handler, err := connect.Connect(recipientContact, e2eClient, params)
Connect ==
    /\ \/ Goto("connect", "registerListener", "connect")
       \/ Panicf("connect", "connect", "connect")
    /\ UNCHANGED <<envVars, diskVars, runs, variant, bootVars, idVars,
                   chanVars, netVars, waitVars, sendAttempts>>

\* _, err = handler.RegisterListener(catalog.NoType, listener{...})
RegisterListener ==
    /\ \/ Goto("registerListener", "sendE2E", "registerListener")
       \/ Panicf("registerListener", "registerListener", "listener")
    /\ UNCHANGED <<envVars, diskVars, runs, variant, bootVars, idVars,
                   chanVars, netVars, waitVars, sendAttempts>>

\* The statement after a SendE2E error: it is printed (fmt.Printf) and the
\* program goes on to select {}.
AfterSendErrorPanics == "dead"
AfterSendErrorRetries == "sendE2E"
AfterSendError == "block"

\* roundIDs, messageID, timeSent, err := handler.SendE2E(...)
SendE2E ==
    /\ \/ Goto("sendE2E", "block", "sendE2E")
       \/ Fail("sendE2E", AfterSendError, "sendFailed", "send")
    /\ sendAttempts' = sendAttempts + 1
    /\ UNCHANGED <<envVars, diskVars, runs, variant, bootVars, idVars,
                   chanVars, netVars, waitVars>>

\* ------------------------------------------------------------- next run
\* The process has ended (a panic) or is killed, and the program is started
\* again on the same disk.
Restart ==
    /\ runs < MaxRuns
    /\ runs' = runs + 1
    /\ variant' \in Variants
    /\ pc' = "stat" /\ fatal' = "none" /\ done' = {}
    /\ foundState' = FALSE /\ ndfJSON' = NilBytes /\ ndfErr' = FALSE
    /\ newCmixArg' = [called |-> FALSE, bytes |-> <<>>]
    /\ identity' = NoId /\ loginId' = NoId
    /\ followerRunning' = FALSE /\ followerErr' = FALSE /\ subscribed' = FALSE
    /\ connected' = <<>> /\ notifier' = Idle /\ sent' = <<>> /\ received' = <<>>
    /\ backlog' = <<>>
    /\ events' = 0 /\ trueBeforeFire' = FALSE
    /\ timer' = "unset" /\ timerArms' = 0 /\ gate' = "none"
    /\ sendAttempts' = 0
    /\ UNCHANGED <<envVars, diskVars>>

Next ==
    \/ Stat \/ ReadNdf \/ ReadCert \/ Download \/ NewCmix \/ LoadCmix
    \/ LoadIdentity \/ MakeIdentity \/ StoreIdentity \/ Login
    \/ WriteContact \/ UnmarshalKey \/ NewServer
    \/ StartFollower \/ AddCallback \/ NewTimer \/ TimerFire \/ HealthEvent
    \/ SelectRecv \/ SelectTimeout
    \/ ReadContact \/ UnmarshalContact \/ Connect \/ RegisterListener \/ SendE2E
    \/ Restart

Spec == Init /\ [][Next]_vars


\* -------------------------------------------- one run, from the subscription
\* The calls a first run on a fresh disk has made once AddHealthCallback has
\* returned.
BootCalls(v) ==
    {"stat", "readNdf", "readCert", "download", "newCmix", "loadCmix",
     "loadIdentity", "makeIdentity", "storeIdentity", "login",
     "startFollower", "addCallback"}
    \cup (IF v = "server" THEN {"writeContact", "unmarshalKey", "newServer"}
          ELSE {})

\* A first run on a fresh disk (no local NDF cache, certificate and remote
\* in order) that has just registered the health callback.
Subscribed ==
    /\ ndfFile = [exists |-> FALSE, bytes |-> <<>>]
    /\ certPresent = TRUE /\ remoteOk = TRUE
    /\ stateDir = "valid" /\ stateWrites = 1
    /\ storedId = 1 /\ firstStored = 1 /\ idCounter = 1
    /\ runs = 1
    /\ pc = "newTimer" /\ fatal = "none" /\ done = BootCalls(variant)
    /\ foundState = FALSE /\ ndfJSON = Bytes(RemoteNdf) /\ ndfErr = TRUE
    /\ newCmixArg = [called |-> TRUE, bytes |-> RemoteNdf]
    /\ identity = 1 /\ loginId = 1
    /\ followerRunning = TRUE /\ followerErr = FALSE /\ subscribed = TRUE
    /\ connected = <<>> /\ notifier = Idle /\ sent = <<>> /\ received = <<>>
    /\ backlog = <<>>
    /\ events = 0 /\ trueBeforeFire = FALSE
    /\ timer = "unset" /\ timerArms = 0 /\ gate = "none"
    /\ sendAttempts = 0

LifeInit == variant \in Variants /\ Subscribed

LifeEvent == FollowerReports(MaxLifeEvents)

LifeNext ==
    \/ NewTimer \/ TimerFire \/ LifeEvent \/ SelectRecv \/ SelectTimeout
    \/ ReadContact \/ UnmarshalContact \/ Connect \/ RegisterListener \/ SendE2E

SpecLifetime == LifeInit /\ [][LifeNext]_vars

\* The state SpecLifetime starts in is one Spec reaches.
SubscribedUnreached == ~Subscribed


\* ----------------------------------------------------------------- claims
Range(q) == { q[i] : i \in 1..Len(q) }
IsPrefix(p, q) == Len(p) <= Len(q) /\ SubSeq(q, 1, Len(p)) = p
SenderActions ==
    {"readContact", "unmarshalContact", "connect", "registerListener",
     "sendE2E", "sendFailed"}
InitCalls == {"readNdf", "readCert", "download", "newCmix"}
\* A select of the wait loop takes one of its cases in this step.
SelectStep ==
    pc = "select" /\ runs' = runs /\ (received' # received \/ gate' # gate)

\* C1 as stated: the request server is constructed only after the follower
\* has been started and the wait has dequeued a true.
C1_ServerOnlyAfterGate ==
    "newServer" \in done =>
        (followerRunning /\ gate = "connected" /\ TRUE \in Range(received))

\* C1, amended: in the server program the request server is constructed only
\* after Login has succeeded and the contact file has been written, and
\* before the network follower is started: the follower is not started, the
\* health callback not registered and the wait not entered until the server
\* has been constructed.
C1_ServerBeforeFollower ==
    variant = "server" =>
        /\ "newServer" \in done =>
              (loginId # NoId /\ "writeContact" \in done)
        /\ ("startFollower" \in done \/ subscribed \/ gate # "none") =>
              "newServer" \in done

C1_Witness ==
    /\ variant = "server"
    /\ "newServer" \in done
    /\ gate = "connected"
    /\ pc = "block"

\* C2: in both programs a failure of StartNetworkFollower ends the process
\* there: the health callback is never registered and the wait never entered.
C2_FollowerFailureFatal ==
    followerErr =>
        (pc = "dead" /\ ~subscribed /\ "waitUntilConnected" \notin done)

\* C3 as stated: once a true has entered the channel before the timer
\* elapsed, the wait never resolves as a timeout.
C3_TrueBeforeTimeoutWins == trueBeforeFire => gate # "timeout"

\* C3, amended: a select of the wait loop taken while a true is at the head
\* of the channel and the timer has not elapsed resolves the wait as success
\* (also after false values were dequeued); the wait resolves as a timeout
\* only when the timer has elapsed and the loop has dequeued no true, so a
\* true enqueued before the timer elapsed loses only if it is still queued
\* when the timer elapses.
C3_TrueAtHeadWins ==
    /\ [](gate = "timeout" => (TimerElapsed /\ TRUE \notin Range(received)))
    /\ [][(SelectStep /\ ~TimerElapsed /\ connected # <<>> /\ Head(connected))
             => (gate' = "connected" /\ pc' = PcAfterGate(variant))]_vars

C3_Witness ==
    /\ gate = "connected"
    /\ trueBeforeFire
    /\ ~TimerElapsed
    /\ Len(received) >= 2

\* C4: the callback's send on the connected channel never blocks the
\* follower, whatever health events it reports during the process lifetime.
C4_NotifierNeverBlocks == ~notifier.blocked

\* C5: the wait dequeues in FIFO order as the only consumer, a false does
\* not resolve it, it resolves as success exactly when the first true is
\* dequeued, and it reads nothing after that; so with false then true
\* queued before the first receive and the timer not elapsed it resolves as
\* success on the true.
C5_FifoOneShot ==
    /\ IsPrefix(received, sent)
    /\ \A i \in 1..(Len(received) - 1) : received[i] = FALSE
    /\ (gate = "connected") <=>
          (received # <<>> /\ received[Len(received)] = TRUE)
    /\ (received # <<>> /\ TRUE \notin Range(received) /\ ~TimerElapsed) =>
          (gate = "waiting" /\ pc = "select")
    /\ (Len(backlog) >= 2 /\ backlog[1] = FALSE /\ backlog[2] = TRUE
           /\ Len(received) >= 2) =>
          (received = <<FALSE, TRUE>> /\ gate = "connected")

C5_Witness ==
    /\ backlog = <<FALSE, TRUE>>
    /\ received = <<FALSE, TRUE>>
    /\ gate = "connected"
    /\ timer = "armed"

\* C6: with only false values (or none) dequeued the wait never resolves as
\* success; it resolves as a timeout only after the timer, armed once when
\* the wait started, has elapsed; dequeuing a false leaves the wait waiting
\* and the timer as it was.
C6_OnlyFalseTimesOut ==
    /\ TRUE \notin Range(received) => gate \in {"none", "waiting", "timeout"}
    /\ gate = "timeout" => timer = "drained"
    /\ timerArms <= 1
    /\ gate # "none" => timerArms = 1
    /\ (received # <<>> /\ TRUE \notin Range(received) /\ gate # "timeout") =>
          (gate = "waiting" /\ pc = "select" /\ fatal = "none")

C6_Witness ==
    /\ gate = "timeout"
    /\ received = <<FALSE, FALSE>>
    /\ fatal = "timeout"

\* C7: in the sender, once the wait has timed out the process has ended and
\* has read no peer contact, set up no channel, registered no listener and
\* sent nothing.
C7_TimeoutStopsSender ==
    (variant = "sender" /\ gate = "timeout") =>
        /\ pc = "dead"
        /\ fatal = "timeout"
        /\ done \cap SenderActions = {}
        /\ sendAttempts = 0

C7_Witness ==
    /\ variant = "sender"
    /\ gate = "timeout"
    /\ pc = "dead"
    /\ followerRunning

\* C8: a run that finds state at statePath reads no NDF and no certificate,
\* downloads nothing and does not call NewCmix; over all runs the state path
\* is written by at most one NewCmix call.
C8_InitOnlyWhenAbsent ==
    /\ foundState => done \cap InitCalls = {}
    /\ "newCmix" \in done => ~foundState
    /\ stateWrites <= 1

C8_Witness ==
    /\ runs = 2
    /\ foundState
    /\ stateWrites = 1
    /\ loginId # NoId

\* C9: an identity stored under the storage key is never replaced, and every
\* Login uses the identity first stored under the key.
C9_IdentityCreatedOnce ==
    /\ storedId \in {NoId, firstStored}
    /\ loginId # NoId => loginId = firstStored

\* C10 as stated: with state absent and a non-empty file at ndfPath, its
\* bytes reach NewCmix unmodified and neither the certificate is read nor
\* the download attempted.
C10_LocalNdfAlwaysUsed ==
    ("readNdf" \in done /\ ndfFile.exists /\ ndfFile.bytes # <<>>) =>
        /\ "readCert" \notin done
        /\ "download" \notin done
        /\ newCmixArg.called => newCmixArg.bytes = ndfFile.bytes

\* C10, amended: with state absent and a non-empty file at ndfPath that
\* ReadFile returns without error, its bytes reach NewCmix unmodified and
\* neither the certificate is read nor the download attempted, whatever the
\* certificate and the remote URL are.
C10_ReadLocalNdfUsed ==
    ("readNdf" \in done /\ ~ndfErr /\ ndfFile.bytes # <<>>) =>
        /\ ndfFile.exists
        /\ "readCert" \notin done
        /\ "download" \notin done
        /\ newCmixArg.called => newCmixArg.bytes = ndfFile.bytes

C10_Witness ==
    /\ ~certPresent /\ ~remoteOk
    /\ ~ndfErr
    /\ newCmixArg = [called |-> TRUE, bytes |-> LocalNdf]
    /\ stateDir = "valid"


\* The remote path has failed in this run: the certificate is missing, or
\* the download or its signature verification returned an error.
RemoteFailed ==
    \/ "readCert" \in done /\ ~certPresent
    \/ "download" \in done /\ ndfJSON.isNil

\* C11: a missing certificate or a failed download or verification ends the
\* process at once: NewCmix is not called, nothing is written at statePath
\* in that run, and the run that follows starts with statePath absent.
C11_RemoteFailureFatal ==
    /\ [](RemoteFailed =>
            /\ pc = "dead"
            /\ fatal \in {"certificate", "download"}
            /\ ~newCmixArg.called
            /\ "newCmix" \notin done
            /\ ~foundState
            /\ stateDir = "absent")
    /\ [][(RemoteFailed /\ runs' # runs) =>
             (stateDir' = "absent" /\ pc' = "stat")]_vars

C11_Witness ==
    /\ runs = 2
    /\ fatal = "download"
    /\ certPresent
    /\ stateDir = "absent"
    /\ done = {"stat", "readNdf", "readCert", "download"}


\* What a run does from Login on.
FromLogin ==
    {"login", "writeContact", "unmarshalKey", "newServer", "startFollower",
     "addCallback", "waitUntilConnected"} \cup SenderActions

\* C12: every identity handed to Login is the one stored under the storage
\* key, and a run whose StoreReceptionIdentity failed has ended without
\* Login, without writing the contact file and without starting the
\* follower.
C12_UnstoredIdentityUnused ==
    /\ loginId # NoId => (loginId = identity /\ loginId = storedId)
    /\ "login" \in done => identity = storedId
    /\ fatal = "storeIdentity" =>
          /\ pc = "dead"
          /\ loginId = NoId
          /\ done \cap FromLogin = {}
          /\ ~followerRunning /\ ~subscribed /\ events = 0

C12_Witness ==
    /\ fatal = "storeIdentity"
    /\ identity # NoId
    /\ identity # storedId
    /\ pc = "dead"


\* C13: in the sender a failed SendE2E does not end the process: the run
\* is in select {} with no fatal error, the channel set up and the listener
\* registered.
C13_SendFailureNonFatal ==
    "sendFailed" \in done =>
        /\ variant = "sender"
        /\ pc = "block"
        /\ fatal = "none"
        /\ {"connect", "registerListener"} \subseteq done
        /\ gate = "connected"

C13_Witness ==
    /\ "sendFailed" \in done
    /\ pc = "block"
    /\ sendAttempts = 1

\* C14: the sender calls SendE2E at most once in a run, and only after
\* connect.Connect and RegisterListener have succeeded; a run ended by a
\* failed Connect or RegisterListener has sent nothing.
C14_OneSendAfterSetup ==
    /\ sendAttempts <= 1
    /\ sendAttempts = 1 <=> done \cap {"sendE2E", "sendFailed"} # {}
    /\ sendAttempts > 0 =>
          /\ variant = "sender"
          /\ {"connect", "registerListener"} \subseteq done
          /\ fatal \notin {"connect", "listener"}
          /\ gate = "connected"
    /\ fatal \in {"connect", "listener"} => (pc = "dead" /\ sendAttempts = 0)
    /\ pc = "sendE2E" => {"connect", "registerListener"} \subseteq done

C14_Witness ==
    /\ fatal = "listener"
    /\ "connect" \in done
    /\ sendAttempts = 0
    /\ pc = "dead"


\* ------------------------------------- the wait, with events without bound
\* One run from the subscription on, its histories not kept, so that the
\* follower can go on reporting for ever.
WaitEvent == UNCHANGED events /\ Report(FALSE)
WaitRecv == Receive(FALSE)

WaitNext == NewTimer \/ TimerFire \/ WaitEvent \/ WaitRecv \/ SelectTimeout

\* The main goroutine runs (NewTimer), the runtime delivers the tick of an
\* armed timer (TimerFire), and select, which picks among its ready cases
\* at random, does not pass over a case that stays ready for ever
\* (WaitRecv, SelectTimeout).
WaitFairness ==
    /\ WF_vars(NewTimer)
    /\ WF_vars(TimerFire)
    /\ WF_vars(WaitRecv)
    /\ WF_vars(SelectTimeout)

SpecWait == LifeInit /\ [][WaitNext]_vars /\ WaitFairness

\* C15: the wait resolves in the end, by a dequeued true or by the timeout,
\* whatever the follower reports and however long it goes on reporting.
C15_WaitResolves == <>(gate \in {"connected", "timeout"})

C15_Witness ==
    /\ gate = "timeout"
    /\ Len(connected) = ChanCap
    /\ notifier.blocked
    /\ TRUE \notin Range(connected)


\* The local NDF cache is present, non-empty and was read without error.
LocalNdfUsable == ndfFile.exists /\ ndfFile.bytes # <<>> /\ ~ndfErr

\* C16: the definition handed to NewCmix is the whole local file when that
\* is present, non-empty and readable, and otherwise the verified remote
\* download; it is never an empty or partly read definition.
C16_CacheOnlyWhenNonEmpty ==
    newCmixArg.called =>
        /\ newCmixArg.bytes # <<>>
        /\ IF LocalNdfUsable
           THEN newCmixArg.bytes = ndfFile.bytes
           ELSE newCmixArg.bytes = RemoteNdf /\ "download" \in done

\* C17: every health event the follower reports once StartNetworkFollower
\* has returned is put on the connected channel (or is the value a blocked
\* send is holding).
C17_NoEventLost ==
    events = Len(sent) + (IF notifier.blocked THEN 1 ELSE 0)

=============================================================================
